---------------------------- MODULE Spec2Model ----------------------------
(***************************************************************************)
(* Model of the sensor layer (sensors.py) and of the simulation engine     *)
(* (simulation.py).                                                        *)
(*                                                                         *)
(* Number representation (TLC has integers only):                          *)
(*   hour        minutes of the day, i.e. the code's float hour times 60   *)
(*               (hour 14.0 is 840); every hour used lies on the 5-minute  *)
(*               grid the simulation steps through                         *)
(*   temperature thousandths of a degree before rounding; the rounded      *)
(*               value (round(temp, 2)) is in hundredths of a degree       *)
(*   brightness  thousandths before int(); the value is a plain integer    *)
(*   random()    an integer u in 0..RAND_RES-1 standing for u / RAND_RES   *)
(*   sin, cos    SIN_SCALE times the real value, from a quarter-wave table *)
(***************************************************************************)
EXTENDS Integers, Sequences, FiniteSets, TLC

(***************************************************************************)
(* Bounds of the model.                                                    *)
(***************************************************************************)
\* seeds 0..MaxSeed of the random generator the simulation runs are explored under
MaxSeed == 1
\* run_simulation is called at most MaxRuns times on one SmartHomeSimulation
MaxRuns == 2
\* the draws offered to a single sensor read are i / DrawSteps, i in 0..DrawSteps
DrawSteps == 4
\* the test observers are 1..NumObservers
NumObservers == 2
\* a test of the observer registry reads its sensor at most MaxBusReads times
MaxBusReads == 2
\* a test of a room calls read_all at most MaxReads times
MaxReads == 3
\* the base temperatures tried go from -MaxBase to MaxBase degrees
MaxBase == 60
\* the collector under test holds at most MaxEvents events
MaxEvents == 2
\* in a full run of the light sensor one noise draw serves NoiseRunLen reads
NoiseRunLen == 24

(***************************************************************************)
(* Program constants.                                                      *)
(***************************************************************************)
TOTAL_STEPS == 288
STEP_DURATION_MINUTES == 5
TOTAL_HOURS == 24
ROOMS == << [name |-> "Living Room", base_temp |-> 22000],
            [name |-> "Bedroom",     base_temp |-> 18000],
            [name |-> "Kitchen",     base_temp |-> 21000],
            [name |-> "Study",       base_temp |-> 20000] >>
min_temp == 15000
max_temp == 45000
min_brightness == 0
max_brightness == 1023

\* resolution of a random draw: random() is u / RAND_RES
RAND_RES == 1000
\* scale of the sine table
SIN_SCALE == 100000
\* minutes in an hour: the factor between the code's hours and the model's
MINUTES == 60

(***************************************************************************)
(* Arithmetic of the Python runtime.                                       *)
(***************************************************************************)
\* round(): x / d rounded to the nearest integer, ties to the even one (d > 0)
RoundDiv(x, d) ==
    LET q == x \div d
        r == x % d
    IN  IF 2 * r < d THEN q
        ELSE IF 2 * r > d THEN q + 1
        ELSE IF q % 2 = 0 THEN q ELSE q + 1

\* int(): x / d truncated toward zero (d > 0)
TruncDiv(x, d) == IF x >= 0 THEN x \div d ELSE -((-x) \div d)

Max2(a, b) == IF a >= b THEN a ELSE b
Min2(a, b) == IF a <= b THEN a ELSE b

\* SIN_SCALE * sin(i * pi / 144) for i in 0..72, rounded
SinQuarter ==
    << 0, 2181, 4362, 6540, 8716, 10887, 13053, 15212, 17365, 19509, 21644,
       23769, 25882, 27983, 30071, 32144, 34202, 36244, 38268, 40275, 42262,
       44229, 46175, 48099, 50000, 51877, 53730, 55557, 57358, 59131, 60876,
       62592, 64279, 65935, 67559, 69151, 70711, 72236, 73728, 75184, 76604,
       77988, 79335, 80644, 81915, 83147, 84339, 85491, 86603, 87673, 88701,
       89687, 90631, 91531, 92388, 93201, 93969, 94693, 95372, 96005, 96593,
       97134, 97630, 98079, 98481, 98836, 99144, 99406, 99619, 99786, 99905,
       99976, 100000 >>

\* math.sin at the angle n * pi / 144 (one grid step of the day is 2 pi / 288)
Sine(n) ==
    LET m == n % 288
    IN  IF m <= 72 THEN SinQuarter[m + 1]
        ELSE IF m <= 144 THEN SinQuarter[144 - m + 1]
        ELSE IF m <= 216 THEN -SinQuarter[m - 144 + 1]
        ELSE -SinQuarter[288 - m + 1]

\* math.cos at the angle n * pi / 144
Cosine(n) == Sine(n + 72)

\* random.uniform(a, b) for the draw u: a + (b - a) * random()
Uniform(a, b, u) == a + ((b - a) * u) \div RAND_RES

\* random.randint(a, b) for the draw u
RandInt(a, b, u) == Min2(b, a + (u * (b - a + 1)) \div RAND_RES)

\* the generator behind the random module: one step of its state
NextRandom(x) == (25173 * x + 13849) % 65536

\* the draw the generator state x yields
RandomOf(x) == (x * RAND_RES) \div 65536

(***************************************************************************)
(* State.                                                                  *)
(***************************************************************************)
VARIABLES
    base_temp,     \* room name -> TemperatureSensor.base_temp of the room's bundle
    observers,     \* <<room, kind>> -> SensorSubject._observers of that sensor
    pir,           \* room name -> the PIRSensor's is_occupied and readings_until_reevaluate
    readings,      \* listener -> the readings list of that observer / logger
    update_calls,  \* the update() calls made by the last operation, in call order
    emitted,       \* the sensor_data dicts created by the last operation, in order
    returned,      \* what the last operation returned
    last,          \* the last operation and its arguments
    rng,           \* state of the generator of the random module
    pc,            \* position of the simulation: "idle" or "loop" (inside run_simulation)
    step,          \* loop variable of run_simulation
    room_idx,      \* position of the inner loop over self.rooms (1-based)
    runs,          \* completed run_simulation calls
    results,       \* what the last run_simulation returned
    reads_done,    \* read / read_all calls a test has made so far (its loop counter)
    pir_hist,      \* history of the PIR sensor under test: the hold drawn at its last
                   \* re-evaluation (0: none, or found empty) and the reads since
    ldr_sums       \* what a test of the light sensor has read so far: sum and number
                   \* of its night readings and of its day readings

vars == << base_temp, observers, pir, readings, update_calls, emitted, returned,
           last, rng, pc, step, room_idx, runs, results, reads_done, pir_hist,
           ldr_sums >>

\* what only the simulation uses, and what only the sensor tests use
simVars == << rng, pc, step, room_idx, runs, results >>
testVars == << reads_done, pir_hist, ldr_sums >>

\* "nothing yet": the value of returned, last and results before any operation
NONE == [op |-> "none"]

(***************************************************************************)
(* SensorSubject: the observer registry of one sensor.  An operation works  *)
(* on a world w: the record of the sensor-layer objects it may touch, with  *)
(* w.tape the random draws it will consume, in order.                       *)
(***************************************************************************)
\* observer not in self._observers
Contains(list, x) == \E i \in 1..Len(list) : list[i] = x

\* list.remove(x): removes the first occurrence
Remove(list, x) ==
    LET i == CHOOSE j \in 1..Len(list) :
                 list[j] = x /\ \A k \in 1..(j - 1) : list[k] # x
    IN  SubSeq(list, 1, i - 1) \o SubSeq(list, i + 1, Len(list))

\* (variant: appends without looking)
register_observer_unchecked(w, s, observer) ==
    [w EXCEPT !.observers[s] = Append(@, observer)]

register_observer(w, s, observer) ==
    IF ~Contains(w.observers[s], observer)
    THEN [w EXCEPT !.observers[s] = Append(@, observer)]
    ELSE w

\* (variant: drops the oldest listener instead of the given one)
unregister_observer_first(w, s, observer) ==
    IF Contains(w.observers[s], observer)
    THEN [w EXCEPT !.observers[s] = Tail(@)]
    ELSE w

unregister_observer(w, s, observer) ==
    IF Contains(w.observers[s], observer)
    THEN [w EXCEPT !.observers[s] = Remove(@, observer)]
    ELSE w

\* observer.update(sensor_data): every observer of the repository appends to its list
update(w, observer, sensor_data) ==
    [w EXCEPT !.readings[observer] = Append(@, sensor_data),
              !.update_calls = Append(@, [observer |-> observer, data |-> sensor_data])]

\* observer.update(sensor_data) of any SensorObserver: the observers of the
\* repository only store the event; where the world names, in w.unregisters, the
\* listeners an observer's update unregisters from the notifying sensor, that
\* observer stores the event and then unregisters them
deliver(w, s, observer, sensor_data) ==
    LET w1 == update(w, observer, sensor_data)
    IN  IF "unregisters" \in DOMAIN w /\ w.unregisters[observer] # {}
        THEN unregister_observer(w1, s, CHOOSE t \in w.unregisters[observer] : TRUE)
        ELSE w1

\* the for loop of notify_observers, from position i of the live list on
RECURSIVE notify_from(_, _, _, _)
notify_from(w, s, i, sensor_data) ==
    IF i > Len(w.observers[s]) THEN w
    ELSE notify_from(deliver(w, s, w.observers[s][i], sensor_data), s, i + 1, sensor_data)

\* (variant: walks the list from its end)
notify_observers_reversed(w, s, sensor_data) ==
    LET n == Len(w.observers[s])
        wr == [w EXCEPT !.observers[s] = [i \in 1..n |-> w.observers[s][n + 1 - i]]]
    IN  [notify_from(wr, s, 1, sensor_data) EXCEPT !.observers = w.observers]

notify_observers(w, s, sensor_data) == notify_from(w, s, 1, sensor_data)

\* the next draw of random(), and the world after it was taken
Draw(w) == Head(w.tape)
Taken(w) == [w EXCEPT !.tape = Tail(@)]

\* the sensor_data dict a read has built is notified, then the value returned
Emit(w, s, sensor_data) ==
    [notify_observers(w, s, sensor_data) EXCEPT !.emitted = Append(@, sensor_data),
                                                !.returned = sensor_data.value]

(***************************************************************************)
(* TemperatureSensor.read                                                  *)
(***************************************************************************)
\* the temperature before the noise is added: base_temp + sine_component
TemperatureCurve(base, simulated_hour) ==
    LET amplitude == (max_temp - min_temp) \div 2
        sine_component ==
            RoundDiv(amplitude * Sine((simulated_hour - 14 * MINUTES) \div 5), SIN_SCALE)
    IN  base + sine_component

\* (variant: the clamp is forgotten)
TemperatureUnclamped(base, simulated_hour, noise) ==
    LET amplitude == (max_temp - min_temp) \div 2
        sine_component ==
            RoundDiv(amplitude * Sine((simulated_hour - 14 * MINUTES) \div 5), SIN_SCALE)
    IN  base + sine_component + noise

\* the temperature before rounding, for noise already drawn
TemperatureClamped(base, simulated_hour, noise) ==
    LET amplitude == (max_temp - min_temp) \div 2
        sine_component ==
            RoundDiv(amplitude * Sine((simulated_hour - 14 * MINUTES) \div 5), SIN_SCALE)
        temp == base + sine_component + noise
    IN  Max2(min_temp, Min2(max_temp, temp))

TemperatureSensor_read(w, room, simulated_hour) ==
    LET noise == Uniform(-500, 500, Draw(w))
        temp == TemperatureClamped(w.base_temp[room], simulated_hour, noise)
        sensor_data == [sensor_type |-> "temperature", room |-> room,
                        value |-> RoundDiv(temp, 10), unit |-> "C",
                        hour |-> simulated_hour]
    IN  Emit(Taken(w), <<room, "temperature">>, sensor_data)

(***************************************************************************)
(* PIRSensor.read                                                          *)
(***************************************************************************)
\* (variant: the night band takes hour 6 as well)
_get_occupancy_probability_closed(simulated_hour) ==
    IF 22 * MINUTES <= simulated_hour \/ simulated_hour <= 6 * MINUTES THEN 100
    ELSE IF 6 * MINUTES <= simulated_hour /\ simulated_hour < 17 * MINUTES THEN 200
    ELSE 800

\* probability of occupancy, in units of 1 / RAND_RES
_get_occupancy_probability(simulated_hour) ==
    IF 22 * MINUTES <= simulated_hour \/ simulated_hour < 6 * MINUTES THEN 100
    ELSE IF 6 * MINUTES <= simulated_hour /\ simulated_hour < 17 * MINUTES THEN 200
    ELSE 800

\* (variant: occupancy is drawn again on every read, also while counting down)
PIRUpdate_redraws(w, room, simulated_hour) ==
    LET st == w.pir[room]
        probability == _get_occupancy_probability(simulated_hour)
        occ == Draw(w) < probability
        w1 == Taken(w)
    IN  IF st.readings_until_reevaluate <= 0
        THEN IF occ
             THEN [Taken(w1) EXCEPT !.pir[room] =
                      [is_occupied |-> TRUE,
                       readings_until_reevaluate |-> RandInt(2, 8, Draw(w1))]]
             ELSE [w1 EXCEPT !.pir[room] =
                      [is_occupied |-> FALSE, readings_until_reevaluate |-> 1]]
        ELSE [w1 EXCEPT !.pir[room] =
                 [is_occupied |-> occ,
                  readings_until_reevaluate |-> st.readings_until_reevaluate - 1]]

\* (variant: occupancy is re-evaluated only once the counter is below 0)
PIRUpdate_below(w, room, simulated_hour) ==
    LET st == w.pir[room]
    IN  IF st.readings_until_reevaluate < 0
        THEN LET probability == _get_occupancy_probability(simulated_hour)
                 occ == Draw(w) < probability
                 w1 == Taken(w)
             IN  IF occ
                 THEN [Taken(w1) EXCEPT !.pir[room] =
                          [is_occupied |-> TRUE,
                           readings_until_reevaluate |-> RandInt(2, 8, Draw(w1))]]
                 ELSE [w1 EXCEPT !.pir[room] =
                          [is_occupied |-> FALSE, readings_until_reevaluate |-> 1]]
        ELSE [w EXCEPT !.pir[room].readings_until_reevaluate = @ - 1]

\* the state update of read: re-evaluate occupancy or count down
PIRUpdate(w, room, simulated_hour) ==
    LET st == w.pir[room]
    IN  IF st.readings_until_reevaluate <= 0
        THEN LET probability == _get_occupancy_probability(simulated_hour)
                 occ == Draw(w) < probability
                 w1 == Taken(w)
             IN  IF occ
                 THEN [Taken(w1) EXCEPT !.pir[room] =
                          [is_occupied |-> TRUE,
                           readings_until_reevaluate |-> RandInt(2, 8, Draw(w1))]]
                 ELSE [w1 EXCEPT !.pir[room] =
                          [is_occupied |-> FALSE, readings_until_reevaluate |-> 1]]
        ELSE [w EXCEPT !.pir[room].readings_until_reevaluate = @ - 1]

\* (variant: reports the hold counter instead of the flag)
PIRSensor_read_counter(w, room, simulated_hour) ==
    LET w1 == PIRUpdate(w, room, simulated_hour)
        sensor_data == [sensor_type |-> "pir", room |-> room,
                        value |-> w1.pir[room].readings_until_reevaluate,
                        occupied |-> w1.pir[room].is_occupied,
                        hour |-> simulated_hour]
    IN  Emit(w1, <<room, "pir">>, sensor_data)

PIRSensor_read(w, room, simulated_hour) ==
    LET w1 == PIRUpdate(w, room, simulated_hour)
        occupancy == IF w1.pir[room].is_occupied THEN 1 ELSE 0
        sensor_data == [sensor_type |-> "pir", room |-> room, value |-> occupancy,
                        occupied |-> w1.pir[room].is_occupied,
                        hour |-> simulated_hour]
    IN  Emit(w1, <<room, "pir">>, sensor_data)

(***************************************************************************)
(* LDRSensor.read                                                          *)
(***************************************************************************)
\* (variant: the two tests of the hour are exchanged)
LDRBrightness_exchanged(simulated_hour, u) ==
    IF 6 * MINUTES <= simulated_hour /\ simulated_hour <= 18 * MINUTES
    THEN min_brightness * 1000 + Uniform(-10000, 10000, u)
    ELSE IF simulated_hour < 6 * MINUTES \/ simulated_hour > 18 * MINUTES
    THEN LET cosine_component == Cosine(2 * ((simulated_hour - 12 * MINUTES) \div 5))
         IN  ((cosine_component + SIN_SCALE) * max_brightness) \div ((2 * SIN_SCALE) \div 1000)
             + Uniform(-30000, 30000, u)
    ELSE min_brightness * 1000

\* the brightness before clamping, in thousandths, for the draw u
LDRBrightness(simulated_hour, u) ==
    IF simulated_hour < 6 * MINUTES \/ simulated_hour > 18 * MINUTES
    THEN min_brightness * 1000 + Uniform(-10000, 10000, u)
    ELSE IF 6 * MINUTES <= simulated_hour /\ simulated_hour <= 18 * MINUTES
    THEN LET cosine_component == Cosine(2 * ((simulated_hour - 12 * MINUTES) \div 5))
         IN  ((cosine_component + SIN_SCALE) * max_brightness) \div ((2 * SIN_SCALE) \div 1000)
             + Uniform(-30000, 30000, u)
    ELSE min_brightness * 1000

\* (variant: rounds instead of cutting)
LDRValueRounded(brightness) ==
    RoundDiv(Max2(min_brightness * 1000, Min2(max_brightness * 1000, brightness)), 1000)

\* clamp to the valid range, then int()
LDRValue(brightness) ==
    TruncDiv(Max2(min_brightness * 1000, Min2(max_brightness * 1000, brightness)), 1000)

LDRSensor_read(w, room, simulated_hour) ==
    LET brightness == LDRBrightness(simulated_hour, Draw(w))
        sensor_data == [sensor_type |-> "ldr", room |-> room,
                        value |-> LDRValue(brightness), unit |-> "0-1023",
                        hour |-> simulated_hour]
    IN  Emit(Taken(w), <<room, "ldr">>, sensor_data)

(***************************************************************************)
(* RoomSensors                                                             *)
(***************************************************************************)
RoomSensors_register_observer(w, room, observer) ==
    LET w1 == register_observer(w, <<room, "temperature">>, observer)
        w2 == register_observer(w1, <<room, "pir">>, observer)
    IN  register_observer(w2, <<room, "ldr">>, observer)

\* (variant: the light sensor is not read)
read_all_without_light(w, room, simulated_hour) ==
    LET w1 == TemperatureSensor_read(w, room, simulated_hour)
        w2 == PIRSensor_read(w1, room, simulated_hour)
    IN  [w2 EXCEPT !.returned =
            [room |-> room, hour |-> simulated_hour, temperature |-> w1.returned,
             occupancy |-> w2.returned, light_level |-> 0]]

\* (variant: the PIR sensor is read before the temperature sensor)
read_all_pir_first(w, room, simulated_hour) ==
    LET w1 == PIRSensor_read(w, room, simulated_hour)
        w2 == TemperatureSensor_read(w1, room, simulated_hour)
        w3 == LDRSensor_read(w2, room, simulated_hour)
    IN  [w3 EXCEPT !.returned =
            [room |-> room, hour |-> simulated_hour, temperature |-> w2.returned,
             occupancy |-> w1.returned, light_level |-> w3.returned]]

read_all(w, room, simulated_hour) ==
    LET w1 == TemperatureSensor_read(w, room, simulated_hour)
        w2 == PIRSensor_read(w1, room, simulated_hour)
        w3 == LDRSensor_read(w2, room, simulated_hour)
    IN  [w3 EXCEPT !.returned =
            [room |-> room, hour |-> simulated_hour, temperature |-> w1.returned,
             occupancy |-> w2.returned, light_level |-> w3.returned]]

(***************************************************************************)
(* An operation reads the sensor-layer objects into a world, runs, and     *)
(* writes the world back.                                                  *)
(***************************************************************************)
World(tape) ==
    [base_temp |-> base_temp, observers |-> observers, pir |-> pir,
     readings |-> readings, update_calls |-> << >>, emitted |-> << >>,
     returned |-> NONE, tape |-> tape]

Commit(w) ==
    /\ base_temp' = w.base_temp
    /\ observers' = w.observers
    /\ pir' = w.pir
    /\ readings' = w.readings
    /\ update_calls' = w.update_calls
    /\ emitted' = w.emitted
    /\ returned' = w.returned

\* the state is the world w (an initial-state predicate)
StartsAs(w) ==
    /\ base_temp = w.base_temp
    /\ observers = w.observers
    /\ pir = w.pir
    /\ readings = w.readings
    /\ update_calls = w.update_calls
    /\ emitted = w.emitted
    /\ returned = w.returned

\* the sensor-layer objects right after RoomSensors(room, base) for every room of
\* roster, with no observer registered and no listener having received anything
Constructed(roster, listeners) ==
    LET names == {roster[i].name : i \in 1..Len(roster)}
    IN  [base_temp |-> [r \in names |->
                          roster[CHOOSE i \in 1..Len(roster) : roster[i].name = r].base_temp],
         observers |-> [s \in names \X {"temperature", "pir", "ldr"} |-> << >>],
         pir |-> [r \in names |-> [is_occupied |-> FALSE, readings_until_reevaluate |-> 0]],
         readings |-> [l \in listeners |-> << >>],
         update_calls |-> << >>, emitted |-> << >>, returned |-> NONE, tape |-> << >>]

(***************************************************************************)
(* SimulationLogger and the statistics of SmartHomeSimulation.             *)
(***************************************************************************)
\* (variant: the room is not looked at)
get_readings_for_room_any(rds, room_name) ==
    LET InRoom(r) == r.room = r.room
    IN  SelectSeq(rds, InRoom)

get_readings_for_room(rds, room_name) ==
    LET InRoom(r) == r.room = room_name
    IN  SelectSeq(rds, InRoom)

OfType(rds, sensor_type) ==
    LET IsType(r) == r.sensor_type = sensor_type
    IN  SelectSeq(rds, IsType)

\* sum(values), min(values), max(values) over values[lo..hi], lo <= hi
RECURSIVE SumOf(_, _, _)
SumOf(rds, lo, hi) ==
    IF lo > hi THEN 0
    ELSE IF lo = hi THEN rds[lo].value
    ELSE LET mid == (lo + hi) \div 2
         IN  SumOf(rds, lo, mid) + SumOf(rds, mid + 1, hi)

RECURSIVE MinOf(_, _, _)
MinOf(rds, lo, hi) ==
    IF lo = hi THEN rds[lo].value
    ELSE LET mid == (lo + hi) \div 2
         IN  Min2(MinOf(rds, lo, mid), MinOf(rds, mid + 1, hi))

RECURSIVE MaxOf(_, _, _)
MaxOf(rds, lo, hi) ==
    IF lo = hi THEN rds[lo].value
    ELSE LET mid == (lo + hi) \div 2
         IN  Max2(MaxOf(rds, lo, mid), MaxOf(rds, mid + 1, hi))

\* the empty dict {}
EMPTY == << >>

\* avg is in hundredths of a degree, like the values: round(sum / len, 2)
_analyze_temperature(rds) ==
    IF rds = << >> THEN EMPTY
    ELSE LET n == Len(rds)
         IN  [readings |-> n,
              min |-> MinOf(rds, 1, n),
              max |-> MaxOf(rds, 1, n),
              avg |-> RoundDiv(SumOf(rds, 1, n), n),
              range |-> MaxOf(rds, 1, n) - MinOf(rds, 1, n)]

\* (variant: the test for an empty list is missing)
_analyze_occupancy_unguarded(rds) ==
    LET total_count == Len(rds)
        occupied_count == SumOf(rds, 1, total_count)
    IN  [readings |-> total_count,
         occupied_count |-> occupied_count,
         empty_count |-> total_count - occupied_count,
         occupancy_rate |-> IF total_count > 0
                            THEN RoundDiv(occupied_count * 1000, total_count)
                            ELSE 0]

\* occupancy_rate is in thousandths: round(occupied_count / total_count, 3)
_analyze_occupancy(rds) ==
    IF rds = << >> THEN EMPTY
    ELSE LET total_count == Len(rds)
             occupied_count == SumOf(rds, 1, total_count)
         IN  [readings |-> total_count,
              occupied_count |-> occupied_count,
              empty_count |-> total_count - occupied_count,
              occupancy_rate |-> IF total_count > 0
                                 THEN RoundDiv(occupied_count * 1000, total_count)
                                 ELSE 0]

\* avg is in tenths: round(sum / len, 1)
_analyze_light(rds) ==
    IF rds = << >> THEN EMPTY
    ELSE LET n == Len(rds)
         IN  [readings |-> n,
              min |-> MinOf(rds, 1, n),
              max |-> MaxOf(rds, 1, n),
              avg |-> RoundDiv(SumOf(rds, 1, n) * 10, n),
              range |-> MaxOf(rds, 1, n) - MinOf(rds, 1, n)]

_analyze_room(room_name, rds) ==
    [total_readings |-> Len(rds),
     temperature |-> _analyze_temperature(OfType(rds, "temperature")),
     occupancy |-> _analyze_occupancy(OfType(rds, "pir")),
     light |-> _analyze_light(OfType(rds, "ldr"))]

_analyze_results(room_names, rds) ==
    [simulation_metadata |->
        [total_steps |-> TOTAL_STEPS,
         step_duration_minutes |-> STEP_DURATION_MINUTES,
         total_duration_hours |-> TOTAL_HOURS,
         rooms |-> Cardinality(room_names),
         total_readings |-> Len(rds)],
     room_statistics |->
        [r \in room_names |-> _analyze_room(r, get_readings_for_room(rds, r))]]

(***************************************************************************)
(* SmartHomeSimulation                                                     *)
(***************************************************************************)
\* the single SimulationLogger of a simulation
LOGGER == "logger"

\* (variant: a 12-hour clock)
get_simulated_hour_12h(s) ==
    LET minutes_elapsed == s * STEP_DURATION_MINUTES
    IN  minutes_elapsed % (12 * MINUTES)

\* the hour (in minutes) of a step: (minutes_elapsed / 60.0) % TOTAL_HOURS
get_simulated_hour(s) ==
    LET minutes_elapsed == s * STEP_DURATION_MINUTES
    IN  minutes_elapsed % (TOTAL_HOURS * MINUTES)

\* __init__: one RoomSensors per roster entry, the logger registered on each
RECURSIVE RegisterRooms(_, _)
RegisterRooms(w, i) ==
    IF i > Len(ROOMS) THEN w
    ELSE RegisterRooms(RoomSensors_register_observer(w, ROOMS[i].name, LOGGER), i + 1)

\* the generator state after n draws
RECURSIVE Advance(_, _)
Advance(x, n) == IF n = 0 THEN x ELSE Advance(NextRandom(x), n - 1)

\* the next n draws of the generator in state x
DrawsFrom(x, n) == [i \in 1..n |-> RandomOf(Advance(x, i))]

Init ==
    /\ StartsAs(RegisterRooms(Constructed(ROOMS, {LOGGER}), 1))
    /\ last = NONE
    /\ rng \in 0..MaxSeed
    /\ pc = "idle"
    /\ step = 0
    /\ room_idx = 1
    /\ runs = 0
    /\ results = NONE
    /\ reads_done = 0
    /\ pir_hist = NONE
    /\ ldr_sums = NONE

RoomNames == {ROOMS[i].name : i \in 1..Len(ROOMS)}

\* (variant: a run starts with an emptied collector)
RunBegin_cleared ==
    /\ pc = "idle"
    /\ runs < MaxRuns
    /\ pc' = "loop"
    /\ step' = 0
    /\ room_idx' = 1
    /\ last' = [op |-> "run_simulation"]
    /\ readings' = [readings EXCEPT ![LOGGER] = << >>]
    /\ UNCHANGED << base_temp, observers, pir, update_calls, emitted,
                    returned, rng, runs, results, testVars >>

\* run_simulation up to its loop
RunBegin ==
    /\ pc = "idle"
    /\ runs < MaxRuns
    /\ pc' = "loop"
    /\ step' = 0
    /\ room_idx' = 1
    /\ last' = [op |-> "run_simulation"]
    /\ UNCHANGED << base_temp, observers, pir, readings, update_calls, emitted,
                    returned, rng, runs, results, testVars >>

\* (variant: the rooms are gone through from the last to the first)
RunReadAll_backwards ==
    /\ pc = "loop"
    /\ step < TOTAL_STEPS
    /\ LET simulated_hour == get_simulated_hour(step)
           room == ROOMS[Len(ROOMS) + 1 - room_idx].name
           w == read_all(World(DrawsFrom(rng, 4)), room, simulated_hour)
       IN  /\ Commit(w)
           /\ rng' = Advance(rng, 4 - Len(w.tape))
           /\ last' = [op |-> "read_all", room |-> room, hour |-> simulated_hour,
                       step |-> step]
    /\ IF room_idx = Len(ROOMS)
       THEN step' = step + 1 /\ room_idx' = 1
       ELSE step' = step /\ room_idx' = room_idx + 1
    /\ UNCHANGED << pc, runs, results, testVars >>

\* one pass of the inner loop: room.read_all(simulated_hour) for the next room
RunReadAll ==
    /\ pc = "loop"
    /\ step < TOTAL_STEPS
    /\ LET simulated_hour == get_simulated_hour(step)
           room == ROOMS[room_idx].name
           w == read_all(World(DrawsFrom(rng, 4)), room, simulated_hour)
       IN  /\ Commit(w)
           /\ rng' = Advance(rng, 4 - Len(w.tape))
           /\ last' = [op |-> "read_all", room |-> room, hour |-> simulated_hour,
                       step |-> step]
    /\ IF room_idx = Len(ROOMS)
       THEN step' = step + 1 /\ room_idx' = 1
       ELSE step' = step /\ room_idx' = room_idx + 1
    /\ UNCHANGED << pc, runs, results, testVars >>

\* the loop is over: run_simulation returns self._analyze_results()
RunAnalyze ==
    /\ pc = "loop"
    /\ step = TOTAL_STEPS
    /\ results' = _analyze_results(RoomNames, readings[LOGGER])
    /\ returned' = results'
    /\ last' = [op |-> "analyze_results"]
    /\ pc' = "idle"
    /\ runs' = runs + 1
    /\ UNCHANGED << base_temp, observers, pir, readings, update_calls, emitted,
                    rng, step, room_idx, testVars >>

Next == RunBegin \/ RunReadAll \/ RunAnalyze

Spec == Init /\ [][Next]_vars

(***************************************************************************)
(* The observer registry under test (test_observer_notifications): one     *)
(* TemperatureSensor, test observers that register and unregister in any   *)
(* order, and reads at the hours 0, 1, 2, ...                              *)
(***************************************************************************)
Observers == 1..NumObservers

\* RoomSensors / TemperatureSensor of the tests: base_temp = 20.0
TEST_ROOM == [name |-> "TestRoom", base_temp |-> 20000]

\* the sensor the registry tests use
TS == << TEST_ROOM.name, "temperature" >>

\* the simulation does not exist in a sensor test
NoSimulation ==
    /\ rng = 0
    /\ pc = "idle"
    /\ step = 0
    /\ room_idx = 1
    /\ runs = 0
    /\ results = NONE

\* a test has built the sensors of one room, with base temperature base
TestInit(base, listeners) ==
    /\ StartsAs(Constructed(<< [name |-> TEST_ROOM.name, base_temp |-> base] >>, listeners))
    /\ last = NONE
    /\ reads_done = 0
    /\ pir_hist = [hold |-> 0, since |-> 0]
    /\ ldr_sums = [night_sum |-> 0, night_count |-> 0, day_sum |-> 0, day_count |-> 0]
    /\ NoSimulation

BusInit == TestInit(TEST_ROOM.base_temp, Observers)

BusRegister ==
    \E l \in Observers :
        /\ Commit(register_observer(World(<< >>), TS, l))
        /\ last' = [op |-> "register_observer", observer |-> l,
                    present |-> Contains(observers[TS], l)]
        /\ UNCHANGED << simVars, testVars >>

BusUnregister ==
    \E l \in Observers :
        /\ Commit(unregister_observer(World(<< >>), TS, l))
        /\ last' = [op |-> "unregister_observer", observer |-> l,
                    present |-> Contains(observers[TS], l)]
        /\ UNCHANGED << simVars, testVars >>

\* sensor.read(float(i)) for the next i
BusRead ==
    /\ reads_done < MaxBusReads
    /\ \E u \in {0, RAND_RES \div 2} :
        LET simulated_hour == reads_done * MINUTES
        IN  /\ Commit(TemperatureSensor_read(World(<< u >>), TEST_ROOM.name, simulated_hour))
            /\ last' = [op |-> "read", hour |-> simulated_hour]
    /\ reads_done' = reads_done + 1
    /\ UNCHANGED << simVars, pir_hist, ldr_sums >>

BusNext == BusRegister \/ BusUnregister \/ BusRead

SpecBus == BusInit /\ [][BusNext]_vars

\* what an observer's update may unregister: nothing, or one listener (itself or
\* another one)
Callbacks == [Observers -> {{}} \cup {{t} : t \in Observers}]

\* sensor.read(float(i)) for the next i, with observers whose update unregisters
NotifyRead ==
    /\ reads_done < MaxBusReads
    /\ \E u \in {0, RAND_RES \div 2} :
       \E cb \in Callbacks :
          LET simulated_hour == reads_done * MINUTES
              w == World(<< u >>) @@ [unregisters |-> cb]
          IN  /\ Commit(TemperatureSensor_read(w, TEST_ROOM.name, simulated_hour))
              /\ last' = [op |-> "read", hour |-> simulated_hour, unregisters |-> cb]
    /\ reads_done' = reads_done + 1
    /\ UNCHANGED << simVars, pir_hist, ldr_sums >>

NotifyNext == BusRegister \/ NotifyRead

SpecNotify == BusInit /\ [][NotifyNext]_vars

(***************************************************************************)
(* A room bundle under test (test_single_room_integration): observers      *)
(* register on the bundle and read_all is called at some hours.            *)
(***************************************************************************)
RoomRegister ==
    \E l \in Observers :
        /\ Commit(RoomSensors_register_observer(World(<< >>), TEST_ROOM.name, l))
        /\ last' = [op |-> "register_observer", observer |-> l]
        /\ UNCHANGED << simVars, testVars >>

RoomReadAll ==
    /\ reads_done < MaxReads
    /\ \E simulated_hour \in {6 * MINUTES, 18 * MINUTES} :
       \E u \in {0, RAND_RES \div 2} :
          /\ Commit(read_all(World(<< u, u, u, u >>), TEST_ROOM.name, simulated_hour))
          /\ last' = [op |-> "read_all", hour |-> simulated_hour]
    /\ reads_done' = reads_done + 1
    /\ UNCHANGED << simVars, pir_hist, ldr_sums >>

RoomNext == RoomRegister \/ RoomReadAll

SpecRoom == BusInit /\ [][RoomNext]_vars

(***************************************************************************)
(* Single sensors under test, with no observer registered.  The           *)
(* temperature and the light sensor are read once at every hour of the     *)
(* 5-minute grid, in order, with any draw of the grid; the PIR sensor is    *)
(* read at any hour around its band boundaries, in any order.              *)
(***************************************************************************)
\* draws i / DrawSteps; the last one stands for the upper end uniform() can reach
DrawGrid == {(RAND_RES * i) \div DrawSteps : i \in 0..DrawSteps}

BaseTemps ==
    {ROOMS[i].base_temp : i \in 1..Len(ROOMS)} \cup {-1000 * MaxBase, 0, 1000 * MaxBase}

TempInit == \E base \in BaseTemps : TestInit(base, {})

TempRead ==
    /\ reads_done < TOTAL_STEPS
    /\ \E u \in DrawGrid :
        LET simulated_hour == get_simulated_hour(reads_done)
        IN  /\ Commit(TemperatureSensor_read(World(<< u >>), TEST_ROOM.name, simulated_hour))
            /\ last' = [op |-> "temperature_read", hour |-> simulated_hour,
                        noise |-> Uniform(-500, 500, u)]
    /\ reads_done' = reads_done + 1
    /\ UNCHANGED << simVars, pir_hist, ldr_sums >>

SpecTemp == TempInit /\ [][TempRead]_vars

LdrInit == TestInit(TEST_ROOM.base_temp, {})

\* the hours of the grid and, last, hour 24.0
LdrRead ==
    /\ reads_done <= TOTAL_STEPS
    /\ \E u \in DrawGrid :
        LET simulated_hour == reads_done * STEP_DURATION_MINUTES
        IN  /\ Commit(LDRSensor_read(World(<< u >>), TEST_ROOM.name, simulated_hour))
            /\ last' = [op |-> "ldr_read", hour |-> simulated_hour,
                        brightness |-> LDRBrightness(simulated_hour, u)]
    /\ reads_done' = reads_done + 1
    /\ UNCHANGED << simVars, pir_hist, ldr_sums >>

SpecLdr == LdrInit /\ [][LdrRead]_vars

\* the light sensor read at every step of a day, as run_simulation reads it, the
\* readings summed as test_ldr_sensor sums them.  The draw of the noise is any of
\* LightDraws, drawn anew every NoiseRunLen reads and repeated in between.
LightDraws == {0, RAND_RES \div 2, RAND_RES}

LdrRunRead ==
    /\ reads_done < TOTAL_STEPS
    /\ \E u \in (IF reads_done % NoiseRunLen = 0 THEN LightDraws ELSE {rng}) :
        LET simulated_hour == get_simulated_hour(reads_done)
            w == LDRSensor_read(World(<< u >>), TEST_ROOM.name, simulated_hour)
        IN  /\ Commit(w)
            /\ rng' = u
            /\ last' = [op |-> "ldr_read", hour |-> simulated_hour,
                        brightness |-> LDRBrightness(simulated_hour, u)]
            /\ ldr_sums' =
                  IF simulated_hour < 6 * MINUTES \/ simulated_hour > 18 * MINUTES
                  THEN [ldr_sums EXCEPT !.night_sum = @ + w.returned,
                                        !.night_count = @ + 1]
                  ELSE [ldr_sums EXCEPT !.day_sum = @ + w.returned,
                                        !.day_count = @ + 1]
    /\ reads_done' = reads_done + 1
    /\ UNCHANGED << pc, step, room_idx, runs, results, pir_hist >>

SpecLdrRun == LdrInit /\ [][LdrRunRead]_vars

\* the hours around the boundaries of the occupancy bands
PirHours ==
    {0, 6 * MINUTES - 5, 6 * MINUTES, 17 * MINUTES - 5, 17 * MINUTES,
     22 * MINUTES - 5, 22 * MINUTES, TOTAL_HOURS * MINUTES - 5}

\* draws of random() on both sides of every occupancy probability
OccupancyDraws == {0, 99, 100, 199, 200, 799, 800, RAND_RES - 1}

\* one draw of random() for each outcome of randint(2, 8)
HoldDraws == {(RAND_RES * (k - 2)) \div 7 + 1 : k \in 2..8}

PirInit == TestInit(TEST_ROOM.base_temp, {})

\* a read re-evaluated occupancy exactly when it drew from the generator; it drew a
\* hold exactly when it drew twice
PirRead ==
    \E simulated_hour \in PirHours :
    \E u \in OccupancyDraws :
    \E h \in HoldDraws :
        LET w == PIRSensor_read(World(<< u, h >>), TEST_ROOM.name, simulated_hour)
            drawn == 2 - Len(w.tape)
        IN  /\ Commit(w)
            /\ last' = [op |-> "pir_read", hour |-> simulated_hour,
                        rerolled |-> drawn > 0]
            /\ pir_hist' = IF drawn > 0
                           THEN [hold |-> IF drawn = 2 THEN RandInt(2, 8, h) ELSE 0,
                                 since |-> 0]
                           ELSE [pir_hist EXCEPT !.since = Min2(@ + 1, 9)]
            /\ UNCHANGED << simVars, reads_done, ldr_sums >>

SpecPir == PirInit /\ [][PirRead]_vars

\* the PIR sensor read at every step of a day, as run_simulation reads it; last
\* keeps the draw that decided a re-evaluation (-1: none was made)
PirDayRead ==
    /\ reads_done < TOTAL_STEPS
    /\ \E u \in OccupancyDraws :
       \E h \in {1, RAND_RES - 1} :
          LET simulated_hour == get_simulated_hour(reads_done)
              w == PIRSensor_read(World(<< u, h >>), TEST_ROOM.name, simulated_hour)
              drawn == 2 - Len(w.tape)
          IN  /\ Commit(w)
              /\ last' = [op |-> "pir_read", hour |-> simulated_hour,
                          rerolled |-> drawn > 0,
                          draw |-> IF drawn > 0 THEN u ELSE -1]
    /\ reads_done' = reads_done + 1
    /\ UNCHANGED << simVars, pir_hist, ldr_sums >>

SpecPirDay == PirInit /\ [][PirDayRead]_vars

(***************************************************************************)
(* The collector and the aggregator on their own: events of any kind and   *)
(* room reach SimulationLogger.update in any order, and the statistics are *)
(* computed from whatever the collector holds, also when it holds nothing. *)
(***************************************************************************)
\* the events offered to the collector: both ends of each kind's value range
StatEvents ==
    { [sensor_type |-> "temperature", room |-> r, value |-> v, unit |-> "C", hour |-> 0] :
         r \in {"Living Room", "Bedroom"}, v \in {min_temp \div 10, max_temp \div 10} }
    \cup
    { [sensor_type |-> "pir", room |-> r, value |-> v, occupied |-> (v = 1), hour |-> 0] :
         r \in {"Living Room", "Bedroom"}, v \in {0, 1} }
    \cup
    { [sensor_type |-> "ldr", room |-> r, value |-> v, unit |-> "0-1023", hour |-> 0] :
         r \in {"Living Room", "Bedroom"}, v \in {min_brightness, max_brightness} }

StatsInit == Init /\ rng = 0

\* logger.update(sensor_data)
StatsUpdate ==
    /\ Len(readings[LOGGER]) < MaxEvents
    /\ \E sensor_data \in StatEvents :
          /\ Commit(update(World(<< >>), LOGGER, sensor_data))
          /\ last' = [op |-> "update"]
    /\ UNCHANGED << simVars, testVars >>

\* self._analyze_results()
StatsAnalyze ==
    /\ results' = _analyze_results(RoomNames, readings[LOGGER])
    /\ returned' = results'
    /\ last' = [op |-> "analyze_results"]
    /\ UNCHANGED << base_temp, observers, pir, readings, update_calls, emitted,
                    rng, pc, step, room_idx, runs, testVars >>

StatsNext == StatsUpdate \/ StatsAnalyze

SpecStats == StatsInit /\ [][StatsNext]_vars

(***************************************************************************)
(* Properties of the simulation (specification Spec).                      *)
(***************************************************************************)
\* the number of events of rds that room r produced at hour h
EventsOf(rds, r, h) ==
    Cardinality({j \in 1..Len(rds) : rds[j].room = r /\ rds[j].hour = h})

\* C1: when the first run_simulation on a fresh simulation has returned, read_all
\* has been performed for each of the 288 steps and each of the 4 rooms (three events
\* per step and room, none skipped by an early exit), the logger holds exactly
\* 288 * 4 * 3 = 3456 events, and that number is the reported total_readings.
C1_FirstRunCollectsAllEvents ==
    (pc = "idle" /\ runs = 1) =>
        /\ Len(readings[LOGGER]) = 3456
        /\ results.simulation_metadata.total_readings = 3456
        /\ \A s \in 0..287 :
             \A r \in {"Living Room", "Bedroom", "Kitchen", "Study"} :
                EventsOf(readings[LOGGER], r, 5 * s) = 3

C1_Witness ==
    /\ pc = "idle"
    /\ runs = 1
    /\ last.op = "analyze_results"
    /\ Len(readings[LOGGER]) = 3456

\* C2: the hour every step of the loop computes is step / 12 hours (5 * step
\* minutes), lies in [0, 24), is greater than the hour of the step before (no
\* wrap-around inside a run), and is 0, 1, 2, 12 and 287/12 hours at the steps
\* 0, 12, 24, 144 and 287.
C2_SimulatedHourOfStep ==
    (last.op = "read_all") =>
        /\ 12 * last.hour = 60 * last.step
        /\ 0 <= last.hour /\ last.hour < 24 * 60
        /\ last.step > 0 =>
             LET rds == readings[LOGGER]
             IN  rds[Len(rds) - 12].hour < rds[Len(rds)].hour
        /\ last.step = 0 => last.hour = 0
        /\ last.step = 12 => last.hour = 60
        /\ last.step = 24 => last.hour = 120
        /\ last.step = 144 => last.hour = 720
        /\ last.step = 287 => 12 * last.hour = 287 * 60

C2_Witness ==
    /\ last.op = "read_all"
    /\ last.step = 287
    /\ last.hour = 1435
    /\ emitted[3].hour = 1435

\* the values of the events of rds that room r's sensor of the given kind produced
ValuesOf(rds, r, sensor_type) ==
    {rds[j].value : j \in {i \in 1..Len(rds) :
                              rds[i].room = r /\ rds[i].sensor_type = sensor_type}}

\* C12: what the first run_simulation on a fresh simulation returns has exactly one
\* room_statistics entry per roster room; each is built from the 864 events of that
\* room alone, 288 of each kind (its minima and maxima are values of that room's own
\* events and bound them all); temperature min and max lie in [15, 45], light min
\* and max in [0, 1023], occupied_count + empty_count = 288, and the occupancy rate
\* lies in [0, 1] (0..1000 thousandths).
C12_RoomStatisticsOfFirstRun ==
    (pc = "idle" /\ runs = 1) =>
        /\ DOMAIN results.room_statistics = {"Living Room", "Bedroom", "Kitchen", "Study"}
        /\ results.simulation_metadata.rooms = 4
        /\ \A r \in DOMAIN results.room_statistics :
              LET st == results.room_statistics[r]
                  temps == ValuesOf(readings[LOGGER], r, "temperature")
                  lights == ValuesOf(readings[LOGGER], r, "ldr")
                  flags == ValuesOf(readings[LOGGER], r, "pir")
              IN  /\ st.total_readings = 864
                  /\ st.temperature.readings = 288
                  /\ st.occupancy.readings = 288
                  /\ st.light.readings = 288
                  /\ st.temperature.min \in temps /\ st.temperature.max \in temps
                  /\ \A v \in temps : st.temperature.min <= v /\ v <= st.temperature.max
                  /\ 1500 <= st.temperature.min /\ st.temperature.max <= 4500
                  /\ st.temperature.range = st.temperature.max - st.temperature.min
                  /\ st.light.min \in lights /\ st.light.max \in lights
                  /\ \A v \in lights : st.light.min <= v /\ v <= st.light.max
                  /\ 0 <= st.light.min /\ st.light.max <= 1023
                  /\ flags \subseteq {0, 1}
                  /\ st.occupancy.occupied_count \in 0..288
                  /\ st.occupancy.occupied_count + st.occupancy.empty_count = 288
                  /\ st.occupancy.occupancy_rate \in 0..1000
                  /\ (st.occupancy.occupied_count = 0) <=> (flags = {0})
                  /\ (st.occupancy.empty_count = 0) <=> (flags = {1})

\* the first run has returned: the Bedroom was found both occupied and empty, and
\* its coldest reading is the 15 degrees the clamp holds it at
C12_Witness ==
    /\ pc = "idle"
    /\ runs = 1
    /\ last.op = "analyze_results"
    /\ results.room_statistics["Bedroom"].total_readings = 864
    /\ results.room_statistics["Bedroom"].temperature.min = 1500
    /\ results.room_statistics["Bedroom"].occupancy.occupied_count >= 1
    /\ results.room_statistics["Bedroom"].occupancy.empty_count >= 1
    /\ results.room_statistics["Bedroom"].light.max > 1000

\* the kinds of event in the order read_all produces them
KINDS == << "temperature", "pir", "ldr" >>

\* C18: the events of a run lie in the collector in the order they were produced:
\* by step, then by room in roster order (Living Room, Bedroom, Kitchen, Study), then
\* by kind (temperature, pir, ldr).  Every read_all of the loop appends its three
\* events at the end, and when a run has returned, the event at the 0-based
\* position 12 * s + 3 * r + k of that run is the reading of kind k of room r at hour
\* s / 12 (5 * s minutes), so no event's hour is below that of the event before it.
C18_EventsInLoopOrder ==
    [][ /\ (last'.op = "read_all") =>
              LET rds == readings'[LOGGER]
                  n == Len(readings[LOGGER])
              IN  /\ n = 3456 * runs + 12 * step + 3 * (room_idx - 1)
                  /\ Len(rds) = n + 3
                  /\ \A k \in 1..3 :
                        /\ rds[n + k] = emitted'[k]
                        /\ rds[n + k].sensor_type = KINDS[k]
                        /\ rds[n + k].room =
                              << "Living Room", "Bedroom", "Kitchen", "Study" >>[room_idx]
                        /\ rds[n + k].hour = 5 * step
        /\ (last'.op = "analyze_results") =>
              LET rds == readings'[LOGGER]
                  first == 3456 * runs
              IN  /\ Len(rds) = first + 3456
                  /\ \A p \in 0..3455 :
                        LET ev == rds[first + p + 1]
                        IN  /\ ev.hour = 5 * (p \div 12)
                            /\ ev.room = << "Living Room", "Bedroom", "Kitchen", "Study" >>
                                            [((p % 12) \div 3) + 1]
                            /\ ev.sensor_type = KINDS[(p % 3) + 1]
                            /\ (p > 0) => rds[first + p].hour <= ev.hour
      ]_vars

\* the first run has returned: the events at the 0-based positions 12 * 144 + 3 * 1 + 1
\* and 12 * 287 + 3 * 3 + 2 are the Bedroom's pir reading at hour 12 and the Study's
\* light reading at the last hour
C18_Witness ==
    /\ pc = "idle"
    /\ runs = 1
    /\ readings[LOGGER][1733].sensor_type = "pir"
    /\ readings[LOGGER][1733].room = "Bedroom"
    /\ readings[LOGGER][1733].hour = 720
    /\ readings[LOGGER][3456].sensor_type = "ldr"
    /\ readings[LOGGER][3456].room = "Study"
    /\ readings[LOGGER][3456].hour = 1435

\* C19: the collector only grows: whatever the simulation does, the events it held
\* before are still there, in the same order, followed by the new ones.  So the
\* n-th consecutive run_simulation on one instance reports total_readings
\* n * 3456 and statistics of every room over the 864 * n events of all n runs.
\* The sensors are not rebuilt either: a run starts with each PIR sensor as the run
\* before left it, and a hold still running is counted down, not re-evaluated.
C19_CollectorOnlyGrows ==
    [][ LET old == readings[LOGGER]
            new == readings'[LOGGER]
        IN  /\ Len(new) >= Len(old)
            /\ SubSeq(new, 1, Len(old)) = old
            /\ (last'.op = "run_simulation") =>
                  /\ new = old
                  /\ Len(old) = 3456 * runs
                  /\ pir' = pir
                  /\ observers' = observers
            /\ (last'.op = "read_all") =>
                  LET before == pir[last'.room]
                      after == pir'[last'.room]
                  IN  (before.readings_until_reevaluate > 0) =>
                         /\ after.is_occupied = before.is_occupied
                         /\ after.readings_until_reevaluate
                               = before.readings_until_reevaluate - 1
            /\ (last'.op = "analyze_results") =>
                  /\ runs' = runs + 1
                  /\ new = old
                  /\ results'.simulation_metadata.total_readings = 3456 * runs'
                  /\ \A r \in {"Living Room", "Bedroom", "Kitchen", "Study"} :
                        LET st == results'.room_statistics[r]
                        IN  /\ st.total_readings = 864 * runs'
                            /\ st.temperature.readings = 288 * runs'
                            /\ st.occupancy.readings = 288 * runs'
                            /\ st.occupancy.occupied_count + st.occupancy.empty_count
                                  = 288 * runs'
                            /\ st.light.readings = 288 * runs'
      ]_vars

\* the second run has returned 6912 readings; the Living Room's PIR sensor ended
\* the first run occupied and its first reading of the second run, the second event
\* after the 3456 of the first run, reports occupied too
C19_Witness ==
    /\ pc = "idle"
    /\ runs = 2
    /\ last.op = "analyze_results"
    /\ results.simulation_metadata.total_readings = 6912
    /\ results.room_statistics["Study"].total_readings = 1728
    /\ readings[LOGGER][3456 + 2].sensor_type = "pir"
    /\ readings[LOGGER][3456 + 2].hour = 0
    /\ readings[LOGGER][3456 + 2].room = "Living Room"
    /\ readings[LOGGER][3456 - 12 + 2].occupied
    /\ readings[LOGGER][3456 + 2].occupied

(***************************************************************************)
(* Properties of the observer registry (specification SpecBus).            *)
(***************************************************************************)
NoDuplicates(list) ==
    \A i, j \in 1..Len(list) : list[i] = list[j] => i = j

\* the number of update() calls in calls that went to observer l
CallsTo(calls, l) ==
    Cardinality({i \in 1..Len(calls) : calls[i].observer = l})

\* list without every occurrence of x, order kept
Without(list, x) ==
    LET Other(y) == y # x
    IN  SelectSeq(list, Other)

\* C3: no observer list ever holds a listener twice; registering a listener that
\* is already registered leaves the list as it is; and every read calls update
\* exactly once on each registered listener, however often it was registered.
C3_RegisterIdempotent ==
    [][ /\ NoDuplicates(observers'[TS])
        /\ (last'.op = "register_observer" /\ Contains(observers[TS], last'.observer))
              => observers'[TS] = observers[TS]
        /\ (last'.op = "register_observer")
              => Contains(observers'[TS], last'.observer)
        /\ (last'.op = "read")
              => \A l \in Observers :
                    Contains(observers[TS], l) =>
                       /\ CallsTo(update_calls', l) = 1
                       /\ Len(readings'[l]) = Len(readings[l]) + 1
      ]_vars

\* a listener is registered again while registered, having received one event for
\* each read made so far
C3_Witness ==
    /\ last.op = "register_observer"
    /\ last.present
    /\ Len(observers[TS]) = 2
    /\ reads_done >= 2
    /\ Len(readings[last.observer]) = reads_done

\* C4: unregister_observer(L) leaves L out of the list, keeps every other listener
\* and every stored event, and changes nothing when L was not registered; a read
\* appends its event to the readings of each registered listener and leaves the
\* readings of every listener that is not registered (any more) untouched.
C4_UnregisterStopsDelivery ==
    [][ /\ (last'.op = "unregister_observer")
              => /\ ~Contains(observers'[TS], last'.observer)
                 /\ \A l \in Observers \ {last'.observer} :
                       Contains(observers'[TS], l) <=> Contains(observers[TS], l)
                 /\ readings' = readings
                 /\ ~Contains(observers[TS], last'.observer) => observers' = observers
        /\ (last'.op = "read")
              => \A l \in Observers :
                    IF Contains(observers[TS], l)
                    THEN readings'[l] = Append(readings[l], emitted'[1])
                    ELSE readings'[l] = readings[l]
      ]_vars

\* a listener that received every read but the last one, before which it was
\* unregistered, while another listener received them all
C4_Witness ==
    /\ last.op = "read"
    /\ reads_done >= 2
    /\ \E l, k \in Observers :
          /\ ~Contains(observers[TS], l)
          /\ Len(readings[l]) = reads_done - 1
          /\ Contains(observers[TS], k)
          /\ Len(readings[k]) = reads_done

\* C5: a read creates one event and, before it returns, calls update with that
\* event once on every registered listener, in the order of the list; the list is
\* in registration order: a new registration goes to the end, and unregistering
\* keeps the order of the others.
C5_NotifyInRegistrationOrder ==
    [][ /\ (last'.op = "read")
              => /\ Len(emitted') = 1
                 /\ returned' = emitted'[1].value
                 /\ observers' = observers
                 /\ update_calls' = [i \in 1..Len(observers[TS]) |->
                                       [observer |-> observers[TS][i], data |-> emitted'[1]]]
        /\ (last'.op = "register_observer" /\ ~Contains(observers[TS], last'.observer))
              => observers'[TS] = Append(observers[TS], last'.observer)
        /\ (last'.op = "unregister_observer")
              => observers'[TS] = Without(observers[TS], last'.observer)
      ]_vars

\* observer 1 holds more events than observer 2 and yet comes after it: it was
\* unregistered and registered again, and the last read called 2 first, then 1
C5_Witness ==
    /\ last.op = "read"
    /\ observers[TS] = << 2, 1 >>
    /\ Len(readings[1]) > Len(readings[2])
    /\ Len(update_calls) = 2
    /\ update_calls[1].observer = 2
    /\ update_calls[2].observer = 1

\* C20: when the update of a listener unregisters a listener (itself or another
\* one) from the sensor during a notification, every listener that was registered
\* when the notification began and has not itself been unregistered still receives
\* the event exactly once.  (Checked under SpecNotify.)
C20_OthersStillNotified ==
    [][ (last'.op = "read") =>
          \A l \in Observers :
             (Contains(observers[TS], l) /\ Contains(observers'[TS], l))
                => /\ CallsTo(update_calls', l) = 1
                   /\ readings'[l] = Append(readings[l], emitted'[1])
      ]_vars

(***************************************************************************)
(* Properties of a room bundle (specification SpecRoom).                   *)
(***************************************************************************)
\* l is registered on the bundle: on each of its three sensors
OnBundle(obs, room, l) ==
    /\ Contains(obs[<< room, "temperature" >>], l)
    /\ Contains(obs[<< room, "pir" >>], l)
    /\ Contains(obs[<< room, "ldr" >>], l)

\* C6: read_all(hour) creates 3 events, of the kinds temperature, pir, ldr in this
\* order, each with the bundle's room name and the given hour, and a listener
\* registered on the bundle receives exactly these 3, in this order, per call; so
\* the number of events a listener holds is a multiple of 3.
C6_ReadAllDeliversThree ==
    [][ (last'.op = "read_all") =>
          /\ Len(emitted') = 3
          /\ emitted'[1].sensor_type = "temperature"
          /\ emitted'[2].sensor_type = "pir"
          /\ emitted'[3].sensor_type = "ldr"
          /\ \A i \in 1..3 :
                emitted'[i].room = "TestRoom" /\ emitted'[i].hour = last'.hour
          /\ \A l \in Observers :
                /\ OnBundle(observers, "TestRoom", l) =>
                      /\ readings'[l] = readings[l] \o emitted'
                      /\ Len(readings'[l]) = Len(readings[l]) + 3
                      /\ CallsTo(update_calls', l) = 3
                /\ Len(readings'[l]) % 3 = 0
                /\ Len(readings'[l]) <= 3 * reads_done'
      ]_vars

\* a listener registered before the first of N >= 2 read_all calls holds 3N events
C6_Witness ==
    /\ last.op = "read_all"
    /\ reads_done >= 2
    /\ \E l \in Observers :
          /\ OnBundle(observers, "TestRoom", l)
          /\ Len(readings[l]) = 3 * reads_done
          /\ readings[l][Len(readings[l])].sensor_type = "ldr"

(***************************************************************************)
(* Properties of the single sensors (SpecTemp, SpecLdr, SpecPir).          *)
(***************************************************************************)
\* C7: for every hour of the day, every base temperature and every noise in
\* [-0.5, 0.5], the temperature returned, which is also the value of the event,
\* lies in [15, 45] degrees (1500..4500 hundredths).
C7_TemperatureInRange ==
    (last.op = "temperature_read") =>
        /\ -500 <= last.noise /\ last.noise <= 500
        /\ 1500 <= returned /\ returned <= 4500
        /\ Len(emitted) = 1
        /\ emitted[1].value = returned

\* the Bedroom's base of 18 degrees at hour 8, where the curve is 15 degrees below
\* the base: the reading is held at 15 by the clamp
C7_Witness ==
    /\ last.op = "temperature_read"
    /\ base_temp["TestRoom"] = 18000
    /\ last.hour = 8 * 60
    /\ last.noise = -500
    /\ returned = 1500

\* C8: for every hour and every noise, the light level returned, which is also the
\* value of the event, is an integer in [0, 1023]: the brightness clamped to
\* [0, 1023] and then truncated toward zero.
C8_LightInRange ==
    (last.op = "ldr_read") =>
        /\ returned \in 0..1023
        /\ Len(emitted) = 1
        /\ emitted[1].value = returned
        /\ returned = IF last.brightness <= 0 THEN 0
                      ELSE IF last.brightness >= 1023000 THEN 1023
                      ELSE last.brightness \div 1000

\* a daylight brightness whose fraction is at least one half: it is cut, not rounded
C8_Witness ==
    /\ last.op = "ldr_read"
    /\ last.brightness > 0
    /\ last.brightness < 1023000
    /\ last.brightness % 1000 >= 500
    /\ returned = last.brightness \div 1000

\* C9: every PIR read returns 0 or 1, the event carries the same value, and the
\* value is 1 exactly when the event's occupied flag, which is the sensor's
\* is_occupied after the read, is true.
C9_OccupancyIsFlag ==
    (last.op = "pir_read") =>
        /\ returned \in {0, 1}
        /\ Len(emitted) = 1
        /\ emitted[1].value = returned
        /\ emitted[1].occupied \in BOOLEAN
        /\ (returned = 1) <=> emitted[1].occupied
        /\ emitted[1].occupied = pir["TestRoom"].is_occupied

\* a read that returned 1 from the held state, and one is enough
C9_Witness ==
    /\ last.op = "pir_read"
    /\ ~last.rerolled
    /\ returned = 1
    /\ emitted[1].occupied
    /\ pir["TestRoom"].is_occupied

\* C10: a read that re-evaluates to occupied draws a hold k in 2..8 and returns 1,
\* and each of the next k-1 reads returns 1 without re-evaluating occupancy,
\* whatever hour it is given.
C10_OccupancyPersists ==
    [][ (last'.op = "pir_read") =>
          /\ pir_hist'.hold \in {0} \cup 2..8
          /\ (last'.rerolled /\ pir_hist'.hold >= 2) => returned' = 1
          /\ (last'.rerolled /\ returned' = 1) => pir_hist'.hold >= 2
          /\ (pir_hist.hold >= 2 /\ pir_hist.since < pir_hist.hold - 1)
                => (~last'.rerolled /\ returned' = 1)
      ]_vars

\* the seventh read after a re-evaluation that drew a hold of 8 returns 1
C10_Witness ==
    /\ last.op = "pir_read"
    /\ pir_hist.hold = 8
    /\ pir_hist.since = 7
    /\ ~last.rerolled
    /\ returned = 1

\* C14: whenever a read re-evaluates occupancy and finds the room empty, the very
\* next read re-evaluates occupancy again (it draws against the probability of its
\* hour) instead of repeating the previous state without a draw.
C14_EmptyRerollsOnNextRead ==
    [][ (last.op = "pir_read" /\ last.rerolled /\ returned = 0 /\ last'.op = "pir_read")
           => last'.rerolled
      ]_vars

\* C15: the noise-free curve base_temp + 15 * sin((hour - 14) * pi / 12) is
\* greatest at hour 14 and least at hour 2: at no hour of the day that is read does
\* it lie above its value at hour 14 or below its value at hour 2.
C15_CurvePeaksAt14TroughAt2 ==
    (last.op = "temperature_read") =>
        LET base == base_temp["TestRoom"]
        IN  /\ TemperatureCurve(base, last.hour) <= TemperatureCurve(base, 14 * 60)
            /\ TemperatureCurve(base, last.hour) >= TemperatureCurve(base, 2 * 60)

\* C16: from construction on, whatever reads are made, readings_until_reevaluate
\* is an integer in 0..8; a read that starts with it greater than 0 decrements it by
\* one and leaves is_occupied alone; a read that starts with it at 0 re-evaluates
\* occupancy and sets it to 1 or to a hold in 2..8 instead of decrementing; so it
\* goes down only from a value greater than 0.
C16_CounterNeverNegative ==
    [][ (last'.op = "pir_read") =>
          LET before == pir["TestRoom"].readings_until_reevaluate
              after == pir'["TestRoom"].readings_until_reevaluate
          IN  /\ before \in 0..8
              /\ after \in 0..8
              /\ (before > 0) =>
                    /\ ~last'.rerolled
                    /\ after = before - 1
                    /\ pir'["TestRoom"].is_occupied = pir["TestRoom"].is_occupied
              /\ (before = 0) =>
                    /\ last'.rerolled
                    /\ after = IF pir'["TestRoom"].is_occupied THEN pir_hist'.hold ELSE 1
                    /\ after \in 1..8
              /\ (after < before) => before > 0
      ]_vars

\* the counter has come down from a hold of 8 to 0, one read at a time
C16_Witness ==
    /\ last.op = "pir_read"
    /\ ~last.rerolled
    /\ pir["TestRoom"].readings_until_reevaluate = 0
    /\ pir["TestRoom"].is_occupied
    /\ pir_hist.hold = 8
    /\ pir_hist.since = 8

\* C17: every hour of the day falls in exactly one of the bands [22, 24) or [0, 6),
\* [6, 17) and [17, 22), and its occupancy probability is 0.10, 0.20 and 0.80
\* respectively (hour 6 gives 0.20, hour 17 gives 0.80, hour 22 gives 0.10): at each
\* of the 288 hours of the simulation, a read that re-evaluates occupancy finds the
\* room occupied exactly when its draw is below the probability of the hour's band.
C17_OccupancyBands ==
    (last.op = "pir_read") =>
        LET h == last.hour
            night == (22 * 60 <= h /\ h < 24 * 60) \/ (0 <= h /\ h < 6 * 60)
            work == 6 * 60 <= h /\ h < 17 * 60
            evening == 17 * 60 <= h /\ h < 22 * 60
            band == IF night THEN 100 ELSE IF work THEN 200 ELSE 800
        IN  /\ Cardinality({b \in {"night", "work", "evening"} :
                               \/ b = "night" /\ night
                               \/ b = "work" /\ work
                               \/ b = "evening" /\ evening}) = 1
            /\ _get_occupancy_probability(h) = band
            /\ (h = 6 * 60) => _get_occupancy_probability(h) = 200
            /\ (h = 17 * 60) => _get_occupancy_probability(h) = 800
            /\ (h = 22 * 60) => _get_occupancy_probability(h) = 100
            /\ last.rerolled => ((returned = 1) <=> (last.draw < band))

\* occupancy re-evaluated at hour 6 sharp with a draw between 0.10 and 0.20: the
\* room is found occupied, as the band [6, 17) has it
C17_Witness ==
    /\ last.op = "pir_read"
    /\ last.hour = 6 * 60
    /\ last.rerolled
    /\ last.draw = 199
    /\ returned = 1

\* C13: when the light sensor has been read at each of the 288 steps of a day,
\* whatever the noise draws were, the mean of the 145 values read at hours in
\* [6, 18] is strictly greater than the mean of the 143 values read at hours < 6
\* or > 18 (compared as day_sum * night_count > night_sum * day_count).
C13_DayBrighterThanNight ==
    (reads_done = 288) =>
        /\ ldr_sums.day_count = 145
        /\ ldr_sums.night_count = 143
        /\ ldr_sums.day_sum * ldr_sums.night_count
              > ldr_sums.night_sum * ldr_sums.day_count

\* a full run whose night readings were not all 0 and whose last hour drew the
\* greatest noise
C13_Witness ==
    /\ reads_done = 288
    /\ last.op = "ldr_read"
    /\ last.hour = 1435
    /\ returned = 10
    /\ ldr_sums.night_sum >= 10 * 100
    /\ ldr_sums.day_sum < 145 * 500

(***************************************************************************)
(* Properties of the aggregator (specification SpecStats).                 *)
(***************************************************************************)
\* C11: the statistics of a kind are the empty entry exactly when the room has no
\* event of that kind, so no average or rate is ever divided by a count of zero
\* (an entry that is not empty counts at least one reading); a room with no event
\* at all gets total_readings 0 and three empty entries.
C11_EmptyPartitionGivesEmptyEntry ==
    (last.op = "analyze_results") =>
        \A r \in RoomNames :
            LET rds == get_readings_for_room(readings[LOGGER], r)
                st == results.room_statistics[r]
            IN  /\ st.total_readings = Len(rds)
                /\ (OfType(rds, "temperature") = << >>) <=> (st.temperature = << >>)
                /\ (OfType(rds, "pir") = << >>) <=> (st.occupancy = << >>)
                /\ (OfType(rds, "ldr") = << >>) <=> (st.light = << >>)
                /\ (st.temperature # << >>) => st.temperature.readings >= 1
                /\ (st.occupancy # << >>) => st.occupancy.readings >= 1
                /\ (st.light # << >>) => st.light.readings >= 1
                /\ (rds = << >>) =>
                      st = [total_readings |-> 0, temperature |-> << >>,
                            occupancy |-> << >>, light |-> << >>]

\* the statistics of a collector that holds temperature events of one room only:
\* that room's other two entries and every entry of the other rooms are empty
C11_Witness ==
    /\ last.op = "analyze_results"
    /\ Len(readings[LOGGER]) = 2
    /\ results.room_statistics["Bedroom"].total_readings = 2
    /\ results.room_statistics["Bedroom"].occupancy = << >>
    /\ results.room_statistics["Bedroom"].light = << >>
    /\ results.room_statistics["Bedroom"].temperature.readings = 2
    /\ results.room_statistics["Study"].total_readings = 0
    /\ results.room_statistics["Study"].temperature = << >>

=============================================================================
